---------------------------- MODULE Spec2Model ----------------------------
(***************************************************************************)
(* Model of the ADIS16490 paged register transport (ADIS16490.cpp/.h) and  *)
(* of the SPI link it drives.  Every library function is a straight-line   *)
(* list of hardware instructions (one page test at its head); the model    *)
(* keeps that list, executes it instruction by instruction and records     *)
(* everything that reaches the wire.                                       *)
(***************************************************************************)
EXTENDS Integers, Sequences, FiniteSets, TLC

(***************************************************************************)
(* Bounds of the exploration.                                              *)
(***************************************************************************)
MaxOps == 3
MaxMapOps == 1
MaxIrq == 1
MaxMainOps == 1
MaxStepOps == 2
MaxScaleOps == 2
MaxLinkOps == 2
MaxBufOps == 3
MaxPrints == 1
\* passes of loop() between two prints (200000 in the sketch; the count is
\* scaled down, nothing but the print depends on it)
PrintThreshold == 2

(***************************************************************************)
(* C integer arithmetic on the widths the code uses.                       *)
(***************************************************************************)
RECURSIVE BitAnd(_, _)
BitAnd(a, b) ==
  IF a = 0 \/ b = 0 THEN 0
  ELSE (a % 2) * (b % 2) + 2 * BitAnd(a \div 2, b \div 2)

RECURSIVE BitOr(_, _)
BitOr(a, b) ==
  IF a = 0 THEN b
  ELSE IF b = 0 THEN a
  ELSE (IF (a % 2) + (b % 2) > 0 THEN 1 ELSE 0) + 2 * BitOr(a \div 2, b \div 2)

Shl8(a) == a * 256

\* x >> 8 on a promoted int (arithmetic shift: floor division)
Shr8(a) == a \div 256

\* x & 0xFF on a promoted int, two's complement
Low8(a) == a % 256

\* conversion of an int to uint8_t / uint16_t / int16_t
ToUint8(a) == a % 256

ToUint16(a) == a % 65536

ToInt16(a) == IF a % 65536 >= 32768 THEN (a % 65536) - 65536 ELSE a % 65536

(***************************************************************************)
(* Register map (ADIS16490.h).  ALM_STS is used by sensorRead and by the   *)
(* printing sketch but the header gives it no value: a build has to take   *)
(* one from elsewhere, and which one is a property of the build.           *)
(***************************************************************************)
VARIABLE almSts  \* build property: the value the build gives to ALM_STS

PAGE_ID == 0
DIAG_STS == 10
ALM_STS == almSts
TEMP_OUT == 14
X_GYRO_OUT == 18
Y_GYRO_OUT == 22
Z_GYRO_OUT == 26
X_ACCL_OUT == 30
Y_ACCL_OUT == 34
Z_ACCL_OUT == 38
PROD_ID == 126
PAGE_ID3 == 768
FNCTIO_CTRL == 774
DEC_RATE == 780

Page0Map ==
  {0, 4, 8, 10, 14, 16, 18, 20, 22, 24, 26, 28, 30, 32, 34, 36, 38, 40,
   64, 66, 68, 70, 72, 74, 76, 78, 80, 82, 84, 86, 126}

\* values a build may give to ALM_STS.  sensorRead clocks it out as one
\* address byte of its page-0 burst, so it is a page-0 address, and the map
\* has no name to spare for it: the word addresses the map leaves free
\* among the status registers at the start of page 0 (0x02, 0x06, 0x0C)
AlmStsValues == {a \in 0..TEMP_OUT : a % 2 = 0 /\ a \notin Page0Map}

Page2Map ==
  {512 + o : o \in {0, 4, 6, 8, 10, 12, 14, 16, 18, 20, 22, 24, 26, 28, 30,
                    32, 34, 36, 38, 116, 118, 120, 122, 124, 126}}

Page3Map ==
  {768 + o : o \in {0, 2, 6, 8, 10, 12, 14, 16, 22, 24, 120, 122, 124, 126}}

Page4Map ==
  {1024 + o : o \in {0, 4, 6, 8, 10, 12, 14, 16, 18, 32}}

RegisterMap == Page0Map \cup Page2Map \cup Page3Map \cup Page4Map

\* int _stall = 5
Stall == 5

\* the literal stall of the burst path
BurstStall == 10

(***************************************************************************)
(* The device on the other end of the link.  Each frame shifts out the     *)
(* word latched by the previous frame; a frame whose first byte has bit 7  *)
(* set is a write, and a write to in-page offset 0 selects the page.       *)
(***************************************************************************)
DevReg(p, o) == (p * 4099 + o * 259 + 32769) % 65536

\* what drives the data line back to the controller: the device ("ok"),
\* nothing but the pull-up because the device is not powered or not wired
\* ("absent"), or the device through an inverting fault ("inverted")
LinkModes == {"ok", "absent", "inverted"}

DevInit == [page |-> 0, out |-> 0, in |-> <<>>, mode |-> "ok"]

DevCsLow(d, wasHigh) == IF wasHigh THEN [d EXCEPT !.in = <<>>] ELSE d

DevByte(d, csLevel) ==
  IF csLevel = 1 THEN 0
  ELSE IF Len(d.in) = 0 THEN d.out \div 256
  ELSE IF Len(d.in) = 1 THEN d.out % 256
  ELSE 0

DevMiso(d, csLevel) ==
  CASE d.mode = "ok" -> DevByte(d, csLevel)
    [] d.mode = "absent" -> 255
    [] d.mode = "inverted" -> 255 - DevByte(d, csLevel)

DevShift(d, csLevel, tx) ==
  IF csLevel = 1 THEN d ELSE [d EXCEPT !.in = Append(d.in, tx)]

DevCsHigh(d, wasLow) ==
  IF ~wasLow \/ Len(d.in) < 2 THEN d
  ELSE IF d.in[1] >= 128
       THEN [page |-> IF d.in[1] = 128 THEN d.in[2] ELSE d.page,
             out |-> 0, in |-> <<>>, mode |-> d.mode]
       ELSE [page |-> d.page, out |-> DevReg(d.page, d.in[1]), in |-> <<>>,
             mode |-> d.mode]

\* the reset line: a low level puts the device back in its power-up state
DevRst(d, level) == IF level = 0 THEN [DevInit EXCEPT !.mode = d.mode] ELSE d

(***************************************************************************)
(* Instructions.  dst is the slot of the caller's byte buffer that         *)
(* receives the byte SPI.transfer returns (-1: discarded).                 *)
(***************************************************************************)
IfPage(p) == [i |-> "if", a |-> p, dst |-> -1, role |-> "none"]
CsLow == [i |-> "cs", a |-> 0, dst |-> -1, role |-> "none"]
CsHigh == [i |-> "cs", a |-> 1, dst |-> -1, role |-> "none"]
Xfer(b, dst, role) == [i |-> "xfer", a |-> ToUint8(b), dst |-> dst, role |-> role]
SetPage(p) == [i |-> "setpage", a |-> p, dst |-> -1, role |-> "none"]
Delay(us) == [i |-> "stall", a |-> us, dst |-> -1, role |-> "none"]
Return == [i |-> "ret", a |-> 0, dst |-> -1, role |-> "none"]
\* digitalWrite(_RST, level)
Rst(level) == [i |-> "rst", a |-> level, dst |-> -1, role |-> "none"]
\* delay(ms)
DelayMs(ms) == [i |-> "delay", a |-> ms, dst |-> -1, role |-> "none"]

\* the page switch stalling before it updates the tracking variable
PageSwitch_StallFirst(page, stall) ==
  << IfPage(page),
     CsLow, Xfer(128, -1, "page"), Xfer(page, -1, "page"), CsHigh,
     Delay(stall),
     SetPage(page) >>

\* the page switch block shared by regRead, regWrite and sensorRead
PageSwitch(page, stall) ==
  << IfPage(page),
     CsLow, Xfer(128, -1, "page"), Xfer(page, -1, "page"), CsHigh,
     SetPage(page),
     Delay(stall) >>

\* number of instructions the page test skips when the page is current
PageSwitchLen == Len(PageSwitch(0, 0)) - 1


(***************************************************************************)
(* The three transport functions as instruction lists.                     *)
(***************************************************************************)

\* regRead keeping the bytes of the address frame instead of the data frame
regRead_AddrBytes(regAddr, lr) ==
  LET page == BitAnd(Shr8(regAddr), 255)
      address == BitAnd(regAddr, 255)
  IN PageSwitch(page, Stall) \o
     << CsLow,
        Xfer(address, IF lr THEN 0 ELSE 1, "addr"),
        Xfer(0, IF lr THEN 1 ELSE 0, "addr"),
        CsHigh,
        Delay(Stall),
        CsLow, Xfer(0, -1, "data"), Xfer(0, -1, "data"), CsHigh,
        Delay(Stall),
        Return >>

\* int16_t ADIS16490::regRead(uint16_t regAddr).  The two SPI.transfer calls
\* of the data frame are operands of one `|`: the build decides which is
\* evaluated first (lr: the left, high-byte operand first).
regRead(regAddr, lr) ==
  LET page == BitAnd(Shr8(regAddr), 255)
      address == BitAnd(regAddr, 255)
  IN PageSwitch(page, Stall) \o
     << CsLow, Xfer(address, -1, "addr"), Xfer(0, -1, "addr"), CsHigh,
        Delay(Stall),
        CsLow,
        Xfer(0, IF lr THEN 0 ELSE 1, "data"),
        Xfer(0, IF lr THEN 1 ELSE 0, "data"),
        CsHigh,
        Delay(Stall),
        Return >>

\* regWrite sending the high word before the low word
regWrite_HighFirst(regAddr, regData) ==
  LET page == BitAnd(Shr8(regAddr), 255)
      address == BitAnd(regAddr, 255)
      addr == ToUint16(Shl8(BitOr(BitAnd(address, 127), 128)))
      lowWord == ToUint16(BitOr(addr, Low8(regData)))
      highWord == ToUint16(BitOr(BitOr(addr, 256), Low8(Shr8(regData))))
  IN PageSwitch(page, Stall) \o
     << CsLow, Xfer(Shr8(highWord), -1, "lo"), Xfer(BitAnd(highWord, 255), -1, "lo"), CsHigh,
        Delay(Stall),
        CsLow, Xfer(Shr8(lowWord), -1, "hi"), Xfer(BitAnd(lowWord, 255), -1, "hi"), CsHigh,
        Delay(Stall),
        Return >>

\* int ADIS16490::regWrite(uint16_t regAddr, int16_t regData)
regWrite(regAddr, regData) ==
  LET page == BitAnd(Shr8(regAddr), 255)
      address == BitAnd(regAddr, 255)
      addr == ToUint16(Shl8(BitOr(BitAnd(address, 127), 128)))
      lowWord == ToUint16(BitOr(addr, Low8(regData)))
      highWord == ToUint16(BitOr(BitOr(addr, 256), Low8(Shr8(regData))))
  IN PageSwitch(page, Stall) \o
     << CsLow, Xfer(Shr8(lowWord), -1, "lo"), Xfer(BitAnd(lowWord, 255), -1, "lo"), CsHigh,
        Delay(Stall),
        CsLow, Xfer(Shr8(highWord), -1, "hi"), Xfer(BitAnd(highWord, 255), -1, "hi"), CsHigh,
        Delay(Stall),
        Return >>

\* a burst frame that leaves chip-select asserted
BurstFrame_NoRelease(next, k, role) ==
  << CsLow, Xfer(next, 2 * k, role), Xfer(0, 2 * k + 1, role),
     Delay(BurstStall) >>

\* a burst frame without the stall that follows it
BurstFrame_NoStall(next, k, role) ==
  << CsLow, Xfer(next, 2 * k, role), Xfer(0, 2 * k + 1, role), CsHigh >>

\* one pipelined burst frame: send the next address, keep the two bytes
BurstFrame(next, k, role) ==
  << CsLow, Xfer(next, 2 * k, role), Xfer(0, 2 * k + 1, role), CsHigh,
     Delay(BurstStall) >>

\* sensorRead requesting the Y accelerometer before the X accelerometer
sensorRead_Swapped ==
  PageSwitch(0, BurstStall) \o
  << CsLow, Xfer(DIAG_STS, -1, "prime"), Xfer(0, -1, "prime"), CsHigh,
     Delay(BurstStall) >> \o
  BurstFrame(ALM_STS, 0, "burst") \o
  BurstFrame(X_GYRO_OUT, 1, "burst") \o
  BurstFrame(Y_GYRO_OUT, 2, "burst") \o
  BurstFrame(Z_GYRO_OUT, 3, "burst") \o
  BurstFrame(Y_ACCL_OUT, 4, "burst") \o
  BurstFrame(X_ACCL_OUT, 5, "burst") \o
  BurstFrame(Z_ACCL_OUT, 6, "burst") \o
  BurstFrame(TEMP_OUT, 7, "burst") \o
  BurstFrame(0, 8, "last") \o
  << Return >>

\* sensorRead without the closing frame that clocks the temperature in
sensorRead_NoLast ==
  PageSwitch(0, BurstStall) \o
  << CsLow, Xfer(DIAG_STS, -1, "prime"), Xfer(0, -1, "prime"), CsHigh,
     Delay(BurstStall) >> \o
  BurstFrame(ALM_STS, 0, "burst") \o
  BurstFrame(X_GYRO_OUT, 1, "burst") \o
  BurstFrame(Y_GYRO_OUT, 2, "burst") \o
  BurstFrame(Z_GYRO_OUT, 3, "burst") \o
  BurstFrame(X_ACCL_OUT, 4, "burst") \o
  BurstFrame(Y_ACCL_OUT, 5, "burst") \o
  BurstFrame(Z_ACCL_OUT, 6, "burst") \o
  BurstFrame(TEMP_OUT, 7, "burst") \o
  << Return >>

\* int16_t *ADIS16490::sensorRead(void)
sensorRead ==
  PageSwitch(0, BurstStall) \o
  << CsLow, Xfer(DIAG_STS, -1, "prime"), Xfer(0, -1, "prime"), CsHigh,
     Delay(BurstStall) >> \o
  BurstFrame(ALM_STS, 0, "burst") \o
  BurstFrame(X_GYRO_OUT, 1, "burst") \o
  BurstFrame(Y_GYRO_OUT, 2, "burst") \o
  BurstFrame(Z_GYRO_OUT, 3, "burst") \o
  BurstFrame(X_ACCL_OUT, 4, "burst") \o
  BurstFrame(Y_ACCL_OUT, 5, "burst") \o
  BurstFrame(Z_ACCL_OUT, 6, "burst") \o
  BurstFrame(TEMP_OUT, 7, "burst") \o
  BurstFrame(0, 8, "last") \o
  << Return >>

\* the registers sensorRead returns, in the order of the result
BurstOrder ==
  << DIAG_STS, ALM_STS, X_GYRO_OUT, Y_GYRO_OUT, Z_GYRO_OUT,
     X_ACCL_OUT, Y_ACCL_OUT, Z_ACCL_OUT, TEMP_OUT >>

\* (sensorbyte[2k] << 8) | (sensorbyte[2k+1] & 0xFF), stored in an int16_t
JoinBytes(hi, lo) == ToInt16(BitOr(Shl8(hi), BitAnd(lo, 255)))

\* value of the static sensorwords[9] after "Join bytes into words"
JoinWords(buf) == [k \in 0..8 |-> JoinBytes(buf[2 * k], buf[2 * k + 1])]

\* regRead returning the word without the conversion to a signed value
RegReadResult_Unsigned(buf) == ToUint16(BitOr(Shl8(buf[0]), BitAnd(buf[1], 255)))

\* return(_dataOut) of regRead: uint16_t converted to int16_t
RegReadResult(buf) == ToInt16(ToUint16(BitOr(Shl8(buf[0]), BitAnd(buf[1], 255))))

\* resetDUT putting the tracking variable back to page 0
resetDUT_ClearsPage(ms) ==
  << Rst(0), Delay(500), Rst(1), SetPage(0), DelayMs(ToUint8(ms)), Return >>

\* int ADIS16490::resetDUT(uint8_t ms): the line is low for
\* delayMicroseconds(500); delay(ms) runs after it is high again
resetDUT(ms) ==
  << Rst(0), Delay(500), Rst(1), DelayMs(ToUint8(ms)), Return >>

\* int ADIS16490::configSPI(): sets the controller's clock, bit order and
\* mode; nothing reaches the pins or the object's fields
configSPI == << Return >>

\* the five scaling functions: no statement but the return of the product
ScaleProgram == << Return >>

(***************************************************************************)
(* The scaling functions.  The C expression is sensorData * coefficient in *)
(* double, stored in a float; the model keeps the exact decimal value as a *)
(* fraction num / den (the float is the representable value nearest to it).*)
(***************************************************************************)
\* sensorData * 0.5
accelScale(sensorData) == [num |-> sensorData * 5, den |-> 10]

\* sensorData * 0.005
gyroScale(sensorData) == [num |-> sensorData * 5, den |-> 1000]

\* tempScale without the 25 degree offset
tempScale_NoOffset(sensorData) == [num |-> sensorData * 1429, den |-> 100000]

\* (sensorData * 0.01429) + 25
tempScale(sensorData) == [num |-> sensorData * 1429 + 2500000, den |-> 100000]

\* sensorData * 0.022
deltaAngleScale(sensorData) == [num |-> sensorData * 22, den |-> 1000]

\* sensorData * 6.104
deltaVelocityScale(sensorData) == [num |-> sensorData * 6104, den |-> 1000]

ScaleOps ==
  {"accelScale", "gyroScale", "tempScale", "deltaAngleScale", "deltaVelocityScale"}

NoScale == [num |-> 0, den |-> 1]

\* the value a scaling function returns for its int16_t parameter
Scaled(op, raw) ==
  CASE op = "accelScale" -> accelScale(ToInt16(raw))
    [] op = "gyroScale" -> gyroScale(ToInt16(raw))
    [] op = "tempScale" -> tempScale(ToInt16(raw))
    [] op = "deltaAngleScale" -> deltaAngleScale(ToInt16(raw))
    [] op = "deltaVelocityScale" -> deltaVelocityScale(ToInt16(raw))
    [] OTHER -> NoScale

(***************************************************************************)
(* State.                                                                  *)
(***************************************************************************)
VARIABLES
  currentPage,   \* ADIS16490::currentPage
  cs,            \* level of the chip-select pin
  rst,           \* level of the reset pin
  sensorwords,   \* static int16_t sensorwords[9] of sensorRead
  dev,           \* the device on the link
  wire,          \* history: everything the pins and the bus have carried,
                 \* and the delays and trigger installations of a sketch
  calls,         \* history: the calls that have returned
  mainCtx,       \* the call in progress in main context
  nextId,        \* history: number of calls started
  irqs,          \* history: number of trigger callbacks run
  evalOrder,     \* build property: regRead's data frame takes the operands
                 \* of | left to right, as the compiler does
  app,           \* the example sketch that uses the object, if any
  other          \* a second ADIS16490 object of the same program: its
                 \* currentPage, its pins, its device and their history

vars == << currentPage, cs, rst, sensorwords, dev, wire, calls, mainCtx, nextId,
           irqs, evalOrder, almSts, app, other >>

ZeroBuf == [k \in 0..17 |-> 0]

\* the globals of an example sketch (int16_t sensorData[9], float
\* scaledData[7], MSC, DECR, printCounter), its position, and whether the
\* trigger callback is attached; ex = "none": the object is used directly
AppAt(ex, phase) ==
  [ex |-> ex, phase |-> phase, pc |-> 1, attached |-> FALSE,
   printCounter |-> 0, prints |-> 0,
   sensorData |-> [k \in 0..8 |-> 0],
   scaledData |-> [k \in 0..6 |-> NoScale],
   MSC |-> 0, DECR |-> 0, sensorPtr |-> FALSE]

NoApp == AppAt("none", "none")

\* pointers to int16_t[9]: the address of the static array of sensorRead,
\* and no array; any other value is the address of an array of one call
SensorwordsPtr == 0
NullPtr == -1

\* the fields, pins and device of an object after construction
NewObject ==
  [currentPage |-> 0, cs |-> 1, rst |-> 1, dev |-> DevInit, wire |-> << >>]

Idle ==
  [id |-> 0, by |-> "none", op |-> "none", addr |-> 0, data |-> 0,
   prog |-> << >>, pc |-> 1, buf |-> ZeroBuf, ret |-> 0, words |-> << >>,
   done |-> TRUE, entryPage |-> 0, preempted |-> FALSE, scaled |-> NoScale,
   obj |-> 1, ptr |-> NullPtr]

NewCall(id, by, op, addr, data, prog, entryPage) ==
  [id |-> id, by |-> by, op |-> op, addr |-> addr, data |-> data,
   prog |-> prog, pc |-> 1, buf |-> ZeroBuf, ret |-> 0, words |-> << >>,
   done |-> FALSE, entryPage |-> entryPage, preempted |-> FALSE,
   scaled |-> NoScale, obj |-> 1, ptr |-> NullPtr]

Event(e, a, b, role, c, g) ==
  [e |-> e, a |-> a, b |-> b, role |-> role, id |-> c.id, cp |-> g.currentPage]

(***************************************************************************)
(* Execution of one instruction of call c on the transport state g.        *)
(***************************************************************************)
\* the page test inverted: switch when the page is already current
ExecIf_Inverted(g, c, ins) ==
  [g |-> g,
   c |-> [c EXCEPT !.pc = IF g.currentPage = ins.a THEN c.pc + 1
                          ELSE c.pc + 1 + PageSwitchLen]]

ExecIf(g, c, ins) ==
  [g |-> g,
   c |-> [c EXCEPT !.pc = IF g.currentPage # ins.a THEN c.pc + 1
                          ELSE c.pc + 1 + PageSwitchLen]]

ExecCs(g, c, ins) ==
  [g |-> [g EXCEPT !.cs = ins.a,
                   !.dev = IF ins.a = 0 THEN DevCsLow(g.dev, g.cs = 1)
                           ELSE DevCsHigh(g.dev, g.cs = 0),
                   !.wire = Append(g.wire, Event("cs", ins.a, 0, "none", c, g))],
   c |-> [c EXCEPT !.pc = c.pc + 1]]

ExecXfer(g, c, ins) ==
  LET rx == DevMiso(g.dev, g.cs)
  IN [g |-> [g EXCEPT !.dev = DevShift(g.dev, g.cs, ins.a),
                      !.wire = Append(g.wire, Event("xfer", ins.a, rx, ins.role, c, g))],
      c |-> [c EXCEPT !.pc = c.pc + 1,
                      !.buf = IF ins.dst >= 0 THEN [c.buf EXCEPT ![ins.dst] = rx]
                              ELSE c.buf]]

\* the page switch taking the new page from the byte the link returned
ExecSetPage_FromLink(g, c, ins) ==
  [g |-> [g EXCEPT !.currentPage = g.wire[Len(g.wire) - 1].b],
   c |-> [c EXCEPT !.pc = c.pc + 1]]

\* the page switch without the update of the tracking variable
ExecSetPage_Skip(g, c, ins) ==
  [g |-> g,
   c |-> [c EXCEPT !.pc = c.pc + 1]]

ExecSetPage(g, c, ins) ==
  [g |-> [g EXCEPT !.currentPage = ins.a],
   c |-> [c EXCEPT !.pc = c.pc + 1]]

ExecDelay(g, c, ins) ==
  [g |-> [g EXCEPT !.wire = Append(g.wire, Event("stall", ins.a, 0, "none", c, g))],
   c |-> [c EXCEPT !.pc = c.pc + 1]]

\* digitalWrite(_RST, level)
ExecRst(g, c, ins) ==
  [g |-> [g EXCEPT !.rst = ins.a,
                   !.dev = DevRst(g.dev, ins.a),
                   !.wire = Append(g.wire, Event("rst", ins.a, 0, "none", c, g))],
   c |-> [c EXCEPT !.pc = c.pc + 1]]

\* delay(ms)
ExecDelayMs(g, c, ins) ==
  [g |-> [g EXCEPT !.wire = Append(g.wire, Event("delay", ins.a, 0, "none", c, g))],
   c |-> [c EXCEPT !.pc = c.pc + 1]]

\* sensorRead filling and returning an array of the call's own instead of
\* the static one
ExecReturn_OwnedBuffer(g, c, ins) ==
  IF c.op = "sensorRead"
  THEN [g |-> g,
        c |-> [c EXCEPT !.done = TRUE, !.words = JoinWords(c.buf),
                        !.ptr = c.id]]
  ELSE IF c.op \in ScaleOps
  THEN [g |-> g,
        c |-> [c EXCEPT !.done = TRUE, !.scaled = Scaled(c.op, c.data)]]
  ELSE [g |-> g,
        c |-> [c EXCEPT !.done = TRUE,
                        !.ret = IF c.op = "regRead" THEN RegReadResult(c.buf) ELSE 1]]

\* regWrite reporting the first byte the link returned instead of 1
ExecReturn_LinkStatus(g, c, ins) ==
  IF c.op = "sensorRead"
  THEN [g |-> [g EXCEPT !.sensorwords = JoinWords(c.buf)],
        c |-> [c EXCEPT !.done = TRUE, !.words = JoinWords(c.buf),
                        !.ptr = SensorwordsPtr]]
  ELSE IF c.op \in ScaleOps
  THEN [g |-> g,
        c |-> [c EXCEPT !.done = TRUE, !.scaled = Scaled(c.op, c.data)]]
  ELSE [g |-> g,
        c |-> [c EXCEPT !.done = TRUE,
                        !.ret = IF c.op = "regRead" THEN RegReadResult(c.buf)
                                ELSE IF c.op = "regWrite"
                                THEN g.wire[Len(g.wire) - 2].b
                                ELSE 1]]

\* return(_dataOut), return(sensorwords), return finalData, return(1)
ExecReturn(g, c, ins) ==
  IF c.op = "sensorRead"
  THEN [g |-> [g EXCEPT !.sensorwords = JoinWords(c.buf)],
        c |-> [c EXCEPT !.done = TRUE, !.words = JoinWords(c.buf),
                        !.ptr = SensorwordsPtr]]
  ELSE IF c.op \in ScaleOps
  THEN [g |-> g,
        c |-> [c EXCEPT !.done = TRUE, !.scaled = Scaled(c.op, c.data)]]
  ELSE [g |-> g,
        c |-> [c EXCEPT !.done = TRUE,
                        !.ret = IF c.op = "regRead" THEN RegReadResult(c.buf) ELSE 1]]

Exec(g, c) ==
  LET ins == c.prog[c.pc]
  IN CASE ins.i = "if" -> ExecIf(g, c, ins)
       [] ins.i = "cs" -> ExecCs(g, c, ins)
       [] ins.i = "xfer" -> ExecXfer(g, c, ins)
       [] ins.i = "setpage" -> ExecSetPage(g, c, ins)
       [] ins.i = "stall" -> ExecDelay(g, c, ins)
       [] ins.i = "ret" -> ExecReturn(g, c, ins)
       [] ins.i = "rst" -> ExecRst(g, c, ins)
       [] ins.i = "delay" -> ExecDelayMs(g, c, ins)

\* a call that nothing interrupts runs from its entry to its return
RECURSIVE Run(_, _)
Run(g, c) ==
  IF c.done THEN [g |-> g, c |-> c]
  ELSE LET r == Exec(g, c) IN Run(r.g, r.c)

\* the state a call on the object runs on: the object's field, its pins
\* and device, and the static array of sensorRead, which belongs to the
\* program and not to the object
Transport ==
  [currentPage |-> currentPage, cs |-> cs, rst |-> rst,
   sensorwords |-> sensorwords, dev |-> dev, wire |-> wire]

Program(op, addr, data) ==
  CASE op = "regRead" -> regRead(addr, evalOrder)
    [] op = "regWrite" -> regWrite(addr, data)
    [] op = "sensorRead" -> sensorRead
    [] op = "resetDUT" -> resetDUT(data)
    [] op = "configSPI" -> configSPI
    [] op \in ScaleOps -> ScaleProgram

\* what the history keeps of a returned call
Returned(c) ==
  [id |-> c.id, by |-> c.by, op |-> c.op, addr |-> c.addr, data |-> c.data,
   ret |-> c.ret, words |-> c.words, entryPage |-> c.entryPage,
   preempted |-> c.preempted, scaled |-> c.scaled, obj |-> c.obj,
   ptr |-> c.ptr]

Commit(g) ==
  /\ currentPage' = g.currentPage
  /\ cs' = g.cs
  /\ rst' = g.rst
  /\ sensorwords' = g.sensorwords
  /\ dev' = g.dev
  /\ wire' = g.wire

(***************************************************************************)
(* Inputs.                                                                 *)
(***************************************************************************)
\* register-map addresses on pages 0 and 3 (one of them a page register),
\* an odd offset on page 2 (0x0201) and an offset above 0x7F on page 255
\* (0xFF80)
Addrs == {DIAG_STS, FNCTIO_CTRL, PAGE_ID3, 513, 65408}

\* 0x000C and 0xFEDC
Datas == {12, -292}

\* the writes of single-threaded use: an address and the data written to it
Writes ==
  { << FNCTIO_CTRL, 12 >>, << PAGE_ID3, 12 >>, << DIAG_STS, -292 >>,
    << 513, -292 >>, << 65408, -292 >> }

(***************************************************************************)
(* Init: the object after construction (currentPage = 0x00, CS high), the  *)
(* device after power-up.                                                  *)
(***************************************************************************)
Init ==
  /\ currentPage = 0
  /\ cs = 1
  /\ rst = 1
  /\ sensorwords = [k \in 0..8 |-> 0]
  /\ dev = DevInit
  /\ wire = << >>
  /\ calls = << >>
  /\ mainCtx = Idle
  /\ nextId = 0
  /\ irqs = 0
  /\ evalOrder = TRUE
  /\ almSts \in AlmStsValues
  /\ other = NewObject
  /\ app = NoApp

(***************************************************************************)
(* Single-threaded use: every call runs to its return.                     *)
(***************************************************************************)
Call(by, op, addr, data) ==
  LET c == NewCall(nextId + 1, by, op, addr, data, Program(op, addr, data), currentPage)
      r == Run(Transport, c)
  IN /\ Commit(r.g)
     /\ calls' = Append(calls, Returned(r.c))
     /\ nextId' = nextId + 1

CallRegRead ==
  /\ mainCtx.done
  /\ Len(calls) < MaxOps
  /\ \E a \in Addrs : Call("main", "regRead", a, 0)
  /\ UNCHANGED << mainCtx, irqs, evalOrder, almSts, other, app >>

CallRegWrite ==
  /\ mainCtx.done
  /\ Len(calls) < MaxOps
  /\ \E w \in Writes : Call("main", "regWrite", w[1], w[2])
  /\ UNCHANGED << mainCtx, irqs, evalOrder, almSts, other, app >>

CallSensorRead ==
  /\ mainCtx.done
  /\ Len(calls) < MaxOps
  /\ Call("main", "sensorRead", 0, 0)
  /\ UNCHANGED << mainCtx, irqs, evalOrder, almSts, other, app >>

Next == CallRegRead \/ CallRegWrite \/ CallSensorRead

Spec == Init /\ [][Next]_vars

(***************************************************************************)
(* Writes over the whole register map.                                     *)
(***************************************************************************)
MapRegWrite ==
  /\ mainCtx.done
  /\ Len(calls) < MaxMapOps
  /\ \E a \in RegisterMap, d \in Datas : Call("main", "regWrite", a, d)
  /\ UNCHANGED << mainCtx, irqs, evalOrder, almSts, other, app >>

NextMap == MapRegWrite

SpecMap == Init /\ [][NextMap]_vars

(***************************************************************************)
(* Use with a trigger callback: a call made in main context advances one   *)
(* instruction at a time, and the callback, when the trigger fires, runs   *)
(* its call from entry to return between two instructions of main.  The    *)
(* transport masks nothing and takes no lock.                              *)
(***************************************************************************)
\* the calls setup makes in the examples
MainCalls ==
  { [op |-> "regRead", addr |-> FNCTIO_CTRL, data |-> 0],
    [op |-> "regWrite", addr |-> FNCTIO_CTRL, data |-> 12] }

\* the callback of the burst example
IsrCalls ==
  { [op |-> "sensorRead", addr |-> 0, data |-> 0] }

MainsStarted == Cardinality({k \in 1..Len(calls) : calls[k].by = "main"})

MainStart ==
  /\ mainCtx.done
  /\ MainsStarted < MaxMainOps
  /\ \E m \in MainCalls :
       mainCtx' = NewCall(nextId + 1, "main", m.op, m.addr, m.data,
                          Program(m.op, m.addr, m.data), currentPage)
  /\ nextId' = nextId + 1
  /\ UNCHANGED << currentPage, cs, rst, sensorwords, dev, wire, calls, irqs,
                  evalOrder, almSts, other, app >>

MainStep ==
  /\ ~mainCtx.done
  /\ LET r == Exec(Transport, mainCtx)
     IN /\ Commit(r.g)
        /\ mainCtx' = r.c
        /\ calls' = IF r.c.done THEN Append(calls, Returned(r.c)) ELSE calls
  /\ UNCHANGED << nextId, irqs, evalOrder, almSts, other, app >>

Isr ==
  /\ irqs < MaxIrq
  /\ \E m \in IsrCalls : Call("isr", m.op, m.addr, m.data)
  /\ mainCtx' = IF mainCtx.done THEN mainCtx ELSE [mainCtx EXCEPT !.preempted = TRUE]
  /\ irqs' = irqs + 1
  /\ UNCHANGED << evalOrder, almSts, other, app >>

NextIrq == MainStart \/ MainStep \/ Isr

SpecIrq == Init /\ [][NextIrq]_vars

(***************************************************************************)
(* Every member function of the class, one statement at a time, in one     *)
(* context: the states in the middle of a call are states of the model.    *)
(***************************************************************************)
\* int16 value passed to the scaling functions here
StepRaw == 100

\* milliseconds passed to resetDUT here
StepMs == 2

StepCalls ==
  { [op |-> "regRead", addr |-> FNCTIO_CTRL, data |-> 0],
    [op |-> "regWrite", addr |-> FNCTIO_CTRL, data |-> 12],
    [op |-> "sensorRead", addr |-> 0, data |-> 0],
    [op |-> "resetDUT", addr |-> 0, data |-> StepMs],
    [op |-> "configSPI", addr |-> 0, data |-> 0] }
  \cup { [op |-> f, addr |-> 0, data |-> StepRaw] : f \in ScaleOps }

StepStart ==
  /\ mainCtx.done
  /\ Len(calls) < MaxStepOps
  /\ \E m \in StepCalls :
       mainCtx' = NewCall(nextId + 1, "main", m.op, m.addr, m.data,
                          Program(m.op, m.addr, m.data), currentPage)
  /\ nextId' = nextId + 1
  /\ UNCHANGED << currentPage, cs, rst, sensorwords, dev, wire, calls, irqs,
                  evalOrder, almSts, other, app >>

NextStep == StepStart \/ MainStep

SpecStep == Init /\ [][NextStep]_vars

(***************************************************************************)
(* The scaling functions applied to raw samples.                           *)
(***************************************************************************)
\* int16 raw samples: both ends of the range, zero and small values of
\* either sign
Raws == {-32768, -100, 0, 1, 100, 32767}

CallScale(f) ==
  /\ mainCtx.done
  /\ Len(calls) < MaxScaleOps
  /\ \E raw \in Raws : Call("main", f, 0, raw)
  /\ UNCHANGED << mainCtx, irqs, evalOrder, almSts, other, app >>

CallAccelScale == CallScale("accelScale")

CallGyroScale == CallScale("gyroScale")

CallTempScale == CallScale("tempScale")

CallDeltaAngleScale == CallScale("deltaAngleScale")

CallDeltaVelocityScale == CallScale("deltaVelocityScale")

NextScale ==
  \/ CallAccelScale
  \/ CallGyroScale
  \/ CallTempScale
  \/ CallDeltaAngleScale
  \/ CallDeltaVelocityScale

SpecScale == Init /\ [][NextScale]_vars

(***************************************************************************)
(* The two example sketches: setup(), loop() and the trigger callback      *)
(* grabData().  Main context advances one statement at a time, a call to   *)
(* the object one statement of the callee at a time; the callback runs     *)
(* from entry to return whenever the trigger is attached.                  *)
(***************************************************************************)
NoDst == [var |-> "none", k |-> 0]

\* a statement of a sketch; src >= 0: the argument is sensorData[src]
CallSt(op, addr, data, src, dst) ==
  [s |-> "call", op |-> op, addr |-> addr, data |-> data, src |-> src, dst |-> dst]

Plain(kind, n) ==
  [s |-> kind, op |-> "none", addr |-> 0, data |-> n, src |-> -1, dst |-> NoDst]

\* setup() installing the callback before anything else
SetupOf_AttachFirst(ex) ==
  << Plain("attach", 0),
     CallSt("configSPI", 0, 0, -1, NoDst),
     Plain("delay", 1000),
     CallSt("regWrite", FNCTIO_CTRL, 12, -1, NoDst),
     Plain("delay", 20),
     CallSt("regWrite", DEC_RATE, IF ex = "printing" THEN 0 ELSE 23, -1, NoDst),
     Plain("delay", 20),
     CallSt("configSPI", 0, 0, -1, NoDst) >>

\* setup() installing the callback between the two configuration writes
SetupOf_AttachBetween(ex) ==
  << CallSt("configSPI", 0, 0, -1, NoDst),
     Plain("delay", 1000),
     CallSt("regWrite", FNCTIO_CTRL, 12, -1, NoDst),
     Plain("delay", 20),
     Plain("attach", 0),
     CallSt("regWrite", DEC_RATE, IF ex = "printing" THEN 0 ELSE 23, -1, NoDst),
     Plain("delay", 20),
     CallSt("configSPI", 0, 0, -1, NoDst) >>

\* void setup() of the two sketches
SetupOf(ex) ==
  IF ex = "printing"
  THEN << CallSt("configSPI", 0, 0, -1, NoDst),
          Plain("delay", 1000),
          CallSt("regWrite", FNCTIO_CTRL, 12, -1, NoDst),
          Plain("delay", 20),
          CallSt("regWrite", DEC_RATE, 0, -1, NoDst),
          Plain("delay", 20),
          CallSt("regRead", FNCTIO_CTRL, 0, -1, [var |-> "MSC", k |-> 0]),
          CallSt("regRead", DEC_RATE, 0, -1, [var |-> "DECR", k |-> 0]),
          CallSt("configSPI", 0, 0, -1, NoDst),
          Plain("attach", 0) >>
  ELSE << CallSt("configSPI", 0, 0, -1, NoDst),
          Plain("delay", 1000),
          CallSt("regWrite", FNCTIO_CTRL, 12, -1, NoDst),
          Plain("delay", 20),
          CallSt("regWrite", DEC_RATE, 23, -1, NoDst),
          Plain("delay", 20),
          CallSt("configSPI", 0, 0, -1, NoDst),
          Plain("attach", 0) >>

\* void scaleData()
ScaleData ==
  << CallSt("gyroScale", 0, 0, 2, [var |-> "scaledData", k |-> 0]),
     CallSt("gyroScale", 0, 0, 3, [var |-> "scaledData", k |-> 1]),
     CallSt("gyroScale", 0, 0, 4, [var |-> "scaledData", k |-> 2]),
     CallSt("accelScale", 0, 0, 5, [var |-> "scaledData", k |-> 3]),
     CallSt("accelScale", 0, 0, 6, [var |-> "scaledData", k |-> 4]),
     CallSt("accelScale", 0, 0, 7, [var |-> "scaledData", k |-> 5]),
     CallSt("tempScale", 0, 0, 8, [var |-> "scaledData", k |-> 6]) >>

\* the loop of the printing sketch without detachInterrupt
LoopOf_NoDetach(ex) ==
  IF ex = "printing"
  THEN << Plain("count", 0) >> \o ScaleData \o
       << Plain("clear", 0), Plain("attach", 0) >>
  ELSE << >>

\* void loop(): the printing sketch counts, and every PrintThreshold passes
\* detaches the callback, scales, prints and attaches it again; the loop
\* of the burst sketch is empty
LoopOf(ex) ==
  IF ex = "printing"
  THEN << Plain("count", 0), Plain("detach", 0) >> \o ScaleData \o
       << Plain("clear", 0), Plain("attach", 0) >>
  ELSE << >>

\* void grabData(): nine single reads in the printing sketch, one burst in
\* the burst sketch
GrabData(ex) ==
  IF ex = "printing"
  THEN [k \in 1..9 |->
          CallSt("regRead", BurstOrder[k], 0, -1, [var |-> "sensorData", k |-> k - 1])]
  ELSE << CallSt("sensorRead", 0, 0, -1, [var |-> "sensorPtr", k |-> 0]) >>

\* the statement main context is at
AppProgram == IF app.phase = "setup" THEN SetupOf(app.ex) ELSE LoopOf(app.ex)

AppHasStmt == app.ex # "none" /\ app.pc <= Len(AppProgram)

AppStmt == AppProgram[app.pc]

\* the position after the current statement: loop() follows setup() and is
\* called again when it returns
Advance(a) ==
  IF a.phase = "setup" /\ a.pc = Len(SetupOf(a.ex))
  THEN [a EXCEPT !.phase = "loop", !.pc = 1]
  ELSE IF a.phase = "loop" /\ a.pc = Len(LoopOf(a.ex))
  THEN [a EXCEPT !.pc = 1]
  ELSE [a EXCEPT !.pc = a.pc + 1]

\* the assignment of a call's result
Store(a, dst, c) ==
  CASE dst.var = "MSC" -> [a EXCEPT !.MSC = c.ret]
    [] dst.var = "DECR" -> [a EXCEPT !.DECR = c.ret]
    [] dst.var = "sensorData" -> [a EXCEPT !.sensorData[dst.k] = c.ret]
    [] dst.var = "scaledData" -> [a EXCEPT !.scaledData[dst.k] = c.scaled]
    [] dst.var = "sensorPtr" -> [a EXCEPT !.sensorPtr = TRUE]
    [] OTHER -> a

AppEvent(e, n) == Event(e, n, 0, "none", Idle, Transport)

InitApp ==
  /\ currentPage = 0
  /\ cs = 1
  /\ rst = 1
  /\ sensorwords = [k \in 0..8 |-> 0]
  /\ dev = DevInit
  /\ wire = << >>
  /\ calls = << >>
  /\ mainCtx = Idle
  /\ nextId = 0
  /\ irqs = 0
  /\ evalOrder = TRUE
  /\ almSts \in AlmStsValues
  /\ other = NewObject
  /\ app \in {AppAt("printing", "setup"), AppAt("burst", "setup")}

\* main context enters a member function
AppCall ==
  /\ AppHasStmt /\ AppStmt.s = "call"
  /\ mainCtx.done
  /\ LET st == AppStmt
         arg == IF st.src >= 0 THEN app.sensorData[st.src] ELSE st.data
     IN mainCtx' = NewCall(nextId + 1, "main", st.op, st.addr, arg,
                           Program(st.op, st.addr, arg), currentPage)
  /\ nextId' = nextId + 1
  /\ UNCHANGED << currentPage, cs, rst, sensorwords, dev, wire, calls, irqs,
                  evalOrder, almSts, other, app >>

\* one statement of the member function; its return assigns the result and
\* moves main context to the next statement of the sketch
AppExec ==
  /\ AppHasStmt /\ AppStmt.s = "call"
  /\ ~mainCtx.done
  /\ LET r == Exec(Transport, mainCtx)
     IN /\ Commit(r.g)
        /\ mainCtx' = r.c
        /\ calls' = IF r.c.done THEN Append(calls, Returned(r.c)) ELSE calls
        /\ app' = IF r.c.done THEN Advance(Store(app, AppStmt.dst, r.c)) ELSE app
  /\ UNCHANGED << nextId, irqs, evalOrder, almSts, other >>

\* delay(ms) in setup()
AppDelay ==
  /\ AppHasStmt /\ AppStmt.s = "delay"
  /\ wire' = Append(wire, AppEvent("delay", AppStmt.data))
  /\ app' = Advance(app)
  /\ UNCHANGED << currentPage, cs, rst, sensorwords, dev, calls, mainCtx, nextId,
                  irqs, evalOrder, almSts, other >>

\* attachInterrupt(2, grabData, RISING)
AppAttach ==
  /\ AppHasStmt /\ AppStmt.s = "attach"
  /\ wire' = Append(wire, AppEvent("attach", 1))
  /\ app' = Advance([app EXCEPT !.attached = TRUE])
  /\ UNCHANGED << currentPage, cs, rst, sensorwords, dev, calls, mainCtx, nextId,
                  irqs, evalOrder, almSts, other >>

\* detachInterrupt(2)
AppDetach ==
  /\ AppHasStmt /\ AppStmt.s = "detach"
  /\ wire' = Append(wire, AppEvent("attach", 0))
  /\ app' = Advance([app EXCEPT !.attached = FALSE])
  /\ UNCHANGED << currentPage, cs, rst, sensorwords, dev, calls, mainCtx, nextId,
                  irqs, evalOrder, almSts, other >>

\* printCounter ++; if (printCounter >= ...): loop() returns when the
\* test fails
AppCount ==
  /\ AppHasStmt /\ AppStmt.s = "count"
  /\ app.prints < MaxPrints
  /\ app' = IF app.printCounter + 1 >= PrintThreshold
            THEN Advance([app EXCEPT !.printCounter = app.printCounter + 1])
            ELSE [app EXCEPT !.printCounter = app.printCounter + 1, !.pc = 1]
  /\ UNCHANGED << currentPage, cs, rst, sensorwords, dev, wire, calls, mainCtx,
                  nextId, irqs, evalOrder, almSts, other >>

\* the prints, then printCounter = 0
AppClear ==
  /\ AppHasStmt /\ AppStmt.s = "clear"
  /\ app' = Advance([app EXCEPT !.printCounter = 0, !.prints = app.prints + 1])
  /\ UNCHANGED << currentPage, cs, rst, sensorwords, dev, wire, calls, mainCtx,
                  nextId, irqs, evalOrder, almSts, other >>

\* the calls of grabData, each run from entry to return
RECURSIVE GrabRun(_, _, _, _, _)
GrabRun(stmts, i, g, a, acc) ==
  IF i > Len(stmts) THEN [g |-> g, app |-> a, calls |-> acc]
  ELSE LET st == stmts[i]
           c == NewCall(nextId + i, "isr", st.op, st.addr, st.data,
                        Program(st.op, st.addr, st.data), g.currentPage)
           r == Run(g, c)
       IN GrabRun(stmts, i + 1, r.g, Store(a, st.dst, r.c),
                  Append(acc, Returned(r.c)))

\* the trigger fires while the callback is attached: grabData runs between
\* two statements of main context
AppIrq ==
  /\ app.attached
  /\ irqs < MaxIrq
  /\ LET r == GrabRun(GrabData(app.ex), 1, Transport, app, << >>)
     IN /\ Commit(r.g)
        /\ app' = r.app
        /\ calls' = calls \o r.calls
        /\ nextId' = nextId + Len(r.calls)
  /\ mainCtx' = IF mainCtx.done THEN mainCtx ELSE [mainCtx EXCEPT !.preempted = TRUE]
  /\ irqs' = irqs + 1
  /\ UNCHANGED << evalOrder, almSts, other >>

NextApp ==
  \/ AppCall
  \/ AppExec
  \/ AppDelay
  \/ AppAttach
  \/ AppDetach
  \/ AppCount
  \/ AppClear
  \/ AppIrq

SpecApp == InitApp /\ [][NextApp]_vars

\* main context runs whenever no callback does: once loop() is entered it
\* goes on to its next statement
AppLoop ==
  /\ app.phase = "loop"
  /\ AppCall \/ AppExec \/ AppDelay \/ AppAttach \/ AppDetach \/ AppCount \/ AppClear

SpecAppFair == SpecApp /\ WF_vars(AppLoop)

(***************************************************************************)
(* The same calls over links that return different bytes.                  *)
(***************************************************************************)
InitLink ==
  /\ currentPage = 0
  /\ cs = 1
  /\ rst = 1
  /\ sensorwords = [k \in 0..8 |-> 0]
  /\ dev \in {[DevInit EXCEPT !.mode = m] : m \in LinkModes}
  /\ wire = << >>
  /\ calls = << >>
  /\ mainCtx = Idle
  /\ nextId = 0
  /\ irqs = 0
  /\ evalOrder = TRUE
  /\ almSts \in AlmStsValues
  /\ other = NewObject
  /\ app = NoApp

LinkRegRead ==
  /\ mainCtx.done
  /\ Len(calls) < MaxLinkOps
  /\ \E a \in Addrs : Call("main", "regRead", a, 0)
  /\ UNCHANGED << mainCtx, irqs, evalOrder, almSts, other, app >>

LinkRegWrite ==
  /\ mainCtx.done
  /\ Len(calls) < MaxLinkOps
  /\ \E w \in Writes : Call("main", "regWrite", w[1], w[2])
  /\ UNCHANGED << mainCtx, irqs, evalOrder, almSts, other, app >>

LinkSensorRead ==
  /\ mainCtx.done
  /\ Len(calls) < MaxLinkOps
  /\ Call("main", "sensorRead", 0, 0)
  /\ UNCHANGED << mainCtx, irqs, evalOrder, almSts, other, app >>

NextLink == LinkRegRead \/ LinkRegWrite \/ LinkSensorRead

SpecLink == InitLink /\ [][NextLink]_vars

\* the state after the calls cl are applied, in order, from state g
RECURSIVE Replay(_, _, _)
Replay(cl, i, g) ==
  IF i > Len(cl) THEN [g |-> g, rets |-> << >>]
  ELSE LET c == cl[i]
           r == Run(g, NewCall(c.id, c.by, c.op, c.addr, c.data,
                               Program(c.op, c.addr, c.data), g.currentPage))
           rest == Replay(cl, i + 1, r.g)
       IN [g |-> rest.g, rets |-> << r.c.ret >> \o rest.rets]

\* the start of another run of the program, over a link of mode m: the
\* object after construction, the static array as the program is loaded
NewTransport(m) ==
  [currentPage |-> 0, cs |-> 1, rst |-> 1,
   sensorwords |-> [k \in 0..8 |-> 0],
   dev |-> [DevInit EXCEPT !.mode = m], wire |-> << >>]

(***************************************************************************)
(* Two objects of one program.  Each has its own currentPage, pins and     *)
(* device; the array sensorRead fills is static, so there is one for the   *)
(* program.  Between bursts the caller writes the page register of an      *)
(* object, so that bursts read the burst offsets of different pages.       *)
(***************************************************************************)
\* the pages written to PAGE_ID
BufPages == {0, 3}

\* the state a call on the second object runs on
OtherTransport ==
  [currentPage |-> other.currentPage, cs |-> other.cs, rst |-> other.rst,
   sensorwords |-> sensorwords, dev |-> other.dev, wire |-> other.wire]

CallOther(op, addr, data) ==
  LET c == [NewCall(nextId + 1, "main", op, addr, data, Program(op, addr, data),
                    other.currentPage) EXCEPT !.obj = 2]
      r == Run(OtherTransport, c)
  IN /\ other' = [currentPage |-> r.g.currentPage, cs |-> r.g.cs, rst |-> r.g.rst,
                  dev |-> r.g.dev, wire |-> r.g.wire]
     /\ sensorwords' = r.g.sensorwords
     /\ calls' = Append(calls, Returned(r.c))
     /\ nextId' = nextId + 1
     /\ UNCHANGED << currentPage, cs, rst, dev, wire >>

BufSensorRead ==
  /\ mainCtx.done
  /\ Len(calls) < MaxBufOps
  /\ Call("main", "sensorRead", 0, 0)
  /\ UNCHANGED << mainCtx, irqs, evalOrder, almSts, other, app >>

BufRegWrite ==
  /\ mainCtx.done
  /\ Len(calls) < MaxBufOps
  /\ \E p \in BufPages : Call("main", "regWrite", PAGE_ID, p)
  /\ UNCHANGED << mainCtx, irqs, evalOrder, almSts, other, app >>

OtherSensorRead ==
  /\ mainCtx.done
  /\ Len(calls) < MaxBufOps
  /\ CallOther("sensorRead", 0, 0)
  /\ UNCHANGED << mainCtx, irqs, evalOrder, almSts, app >>

OtherRegWrite ==
  /\ mainCtx.done
  /\ Len(calls) < MaxBufOps
  /\ \E p \in BufPages : CallOther("regWrite", PAGE_ID, p)
  /\ UNCHANGED << mainCtx, irqs, evalOrder, almSts, app >>

NextBuf == BufSensorRead \/ BufRegWrite \/ OtherSensorRead \/ OtherRegWrite

SpecBuf == Init /\ [][NextBuf]_vars

(***************************************************************************)
(* Reading the history.                                                    *)
(***************************************************************************)
\* the frames of a stretch of wire: the transfers between a falling and the
\* next rising edge of chip-select
RECURSIVE ParseFrames(_, _, _, _)
ParseFrames(evs, i, open, acc) ==
  IF i > Len(evs) THEN acc
  ELSE LET e == evs[i]
           n == Len(acc)
       IN IF e.e = "cs" /\ e.a = 0
          THEN ParseFrames(evs, i + 1, TRUE,
                 Append(acc, [role |-> "none", tx |-> << >>, rx |-> << >>,
                              cp |-> e.cp, id |-> e.id]))
          ELSE IF e.e = "cs"
          THEN ParseFrames(evs, i + 1, FALSE, acc)
          ELSE IF e.e = "xfer" /\ open /\ n > 0
          THEN ParseFrames(evs, i + 1, open,
                 [acc EXCEPT ![n] = [role |-> e.role,
                                     tx |-> Append(acc[n].tx, e.a),
                                     rx |-> Append(acc[n].rx, e.b),
                                     cp |-> acc[n].cp, id |-> acc[n].id]])
          ELSE IF e.e = "xfer"
          THEN ParseFrames(evs, i + 1, open,
                 Append(acc, [role |-> "stray", tx |-> << e.a >>, rx |-> << e.b >>,
                              cp |-> e.cp, id |-> e.id]))
          ELSE ParseFrames(evs, i + 1, open, acc)

Frames(evs) == ParseFrames(evs, 1, FALSE, << >>)

IsOf(id, e) == e.id = id

CallEvents(id) == SelectSeq(wire, LAMBDA e : IsOf(id, e))

CallFrames(id) == Frames(CallEvents(id))

IsPageFrame(f) == f.role = "page"

IsInPageFrame(f) == f.role # "page"

PageFrames(fs) == SelectSeq(fs, IsPageFrame)

InPageFrames(fs) == SelectSeq(fs, IsInPageFrame)

TxOf(fs) == [j \in 1..Len(fs) |-> fs[j].tx]

PageByte(addr) == addr \div 256

Offset(addr) == addr % 256

TargetPage(c) == IF c.op = "sensorRead" THEN 0 ELSE PageByte(c.addr)

CallIds == {calls[k].id : k \in 1..Len(calls)}

CallById(id) == CHOOSE c \in {calls[k] : k \in 1..Len(calls)} : c.id = id

LastCall == calls[Len(calls)]

\* signed 16-bit value of a high and a low byte
Word16(h, l) == IF h * 256 + l >= 32768 THEN h * 256 + l - 65536 ELSE h * 256 + l

(***************************************************************************)
(* Properties.                                                             *)
(***************************************************************************)

\* C1: whenever a byte of an in-page frame (address, data or write frame,
\* i.e. not a page-select frame) is transferred, currentPage equals the
\* page byte of the register the call accesses (0 for sensorRead).
C1_PageEstablished ==
  \A i \in 1..Len(wire) :
    (wire[i].e = "xfer" /\ wire[i].role # "page" /\ wire[i].id \in CallIds)
      => wire[i].cp = TargetPage(CallById(wire[i].id))

\* a call entered on another page than its register's has issued in-page frames
C1_Witness ==
  \E k \in 1..Len(calls) :
    /\ calls[k].entryPage # TargetPage(calls[k])
    /\ TargetPage(calls[k]) # 0
    /\ Len(InPageFrames(CallFrames(calls[k].id))) >= 2

\* the calls so far are reads and writes that all address page p
SamePageRun(p) ==
  /\ Len(calls) > 0
  /\ \A k \in 1..Len(calls) :
       calls[k].op \in {"regRead", "regWrite"} /\ PageByte(calls[k].addr) = p

\* C2 as stated: on a new transport every non-empty sequence of reads and
\* writes confined to one page p issues exactly one page-select frame.
C2_ExactlyOnePageSelect ==
  \A p \in 0..255 :
    SamePageRun(p) => Len(PageFrames(Frames(wire))) = 1

\* C2 amended: such a sequence issues exactly one page-select frame when
\* p is not 0, as the first frame of the first call, and none when p is 0,
\* the page a new transport already tracks.
C2_OnePageSelectUnlessPageZero ==
  \A p \in 0..255 :
    SamePageRun(p) =>
      LET fs == Frames(wire)
      IN IF p = 0 THEN Len(PageFrames(fs)) = 0
         ELSE /\ Len(PageFrames(fs)) = 1
              /\ fs[1].role = "page"
              /\ fs[1].tx = << 128, p >>

\* three operations on page 3, a read and a write among them
C2_Witness ==
  /\ SamePageRun(3)
  /\ Len(calls) >= 3
  /\ \E k \in 1..Len(calls) : calls[k].op = "regRead"
  /\ \E k \in 1..Len(calls) : calls[k].op = "regWrite"

\* C3: of two consecutive reads, the second starts with a page-select frame
\* carrying its page, ahead of its address frame, when the page bytes
\* differ, and issues no page-select frame when it reads the same address.
C3_PageSwitchOnRead ==
  \A k \in 1..(Len(calls) - 1) :
    (calls[k].op = "regRead" /\ calls[k + 1].op = "regRead") =>
      LET a1 == calls[k].addr
          a2 == calls[k + 1].addr
          fs == CallFrames(calls[k + 1].id)
      IN /\ PageByte(a1) # PageByte(a2) =>
              /\ Len(fs) >= 2
              /\ fs[1].role = "page"
              /\ fs[1].tx = << 128, PageByte(a2) >>
              /\ fs[2].role = "addr"
              /\ fs[2].tx = << Offset(a2), 0 >>
              /\ Len(PageFrames(fs)) = 1
         /\ a1 = a2 => Len(PageFrames(fs)) = 0

\* a read on a page other than 0, the same read again, then a read on
\* another page
C3_Witness ==
  /\ Len(calls) >= 3
  /\ \A k \in 1..3 : calls[k].op = "regRead"
  /\ PageByte(calls[1].addr) # 0
  /\ calls[2].addr = calls[1].addr
  /\ PageByte(calls[3].addr) # PageByte(calls[2].addr)

\* C4: after the optional page-select frame regRead issues exactly two
\* frames, the address frame (addr & 0xFF, 0x00) and then the data frame
\* (0x00, 0x00), and its result is made of the two bytes the data frame
\* returned, whatever the address frame returned.
C4_ReadFrames ==
  \A k \in 1..Len(calls) :
    calls[k].op = "regRead" =>
      LET fs == InPageFrames(CallFrames(calls[k].id))
      IN /\ Len(fs) = 2
         /\ fs[1].role = "addr" /\ fs[1].tx = << Offset(calls[k].addr), 0 >>
         /\ fs[2].role = "data" /\ fs[2].tx = << 0, 0 >>
         /\ Len(fs[2].rx) = 2
         /\ calls[k].ret = IF evalOrder THEN Word16(fs[2].rx[1], fs[2].rx[2])
                           ELSE Word16(fs[2].rx[2], fs[2].rx[1])

\* a read whose address frame and data frame returned different non-zero words
C4_Witness ==
  \E k \in 1..Len(calls) :
    /\ calls[k].op = "regRead"
    /\ LET fs == InPageFrames(CallFrames(calls[k].id))
       IN /\ fs[1].rx # fs[2].rx
          /\ fs[1].rx # << 0, 0 >>
          /\ fs[2].rx # << 0, 0 >>
          /\ calls[k].ret < 0

\* C5 as stated: for every address and data, after the optional page-select
\* frame regWrite issues the low frame (0x80 | offset, data & 0xFF) and then
\* the high frame (0x80 | (offset + 1), (data >> 8) & 0xFF).
C5_WriteFrames ==
  \A k \in 1..Len(calls) :
    calls[k].op = "regWrite" =>
      LET fs == InPageFrames(CallFrames(calls[k].id))
          off == Offset(calls[k].addr)
      IN /\ Len(fs) = 2
         /\ fs[1].tx = << BitOr(128, off), calls[k].data % 256 >>
         /\ fs[2].tx = << BitOr(128, off + 1), (calls[k].data \div 256) % 256 >>

\* C6: for every address of the register map and every data, the low frame
\* carries the offset with the write bit and the low byte, the high frame
\* offset + 1 with the write bit and the high byte; the first call
\* regWrite(0x0306, 0x0C) of a new transport emits (0x80,0x03), (0x86,0x0C),
\* (0x87,0x00).
C6_MapWriteFrames ==
  /\ \A k \in 1..Len(calls) :
       (calls[k].op = "regWrite" /\ calls[k].addr \in RegisterMap) =>
         LET fs == InPageFrames(CallFrames(calls[k].id))
             off == Offset(calls[k].addr)
         IN /\ off % 2 = 0 /\ off <= 126
            /\ Len(fs) = 2
            /\ fs[1].tx = << 128 + off, calls[k].data % 256 >>
            /\ fs[2].tx = << 128 + off + 1, (calls[k].data \div 256) % 256 >>
  /\ (Len(calls) > 0 /\ calls[1].op = "regWrite" /\ calls[1].addr = 774
        /\ calls[1].data = 12) =>
       TxOf(CallFrames(calls[1].id)) = << << 128, 3 >>, << 134, 12 >>, << 135, 0 >> >>

\* the first call of a new transport was regWrite(FNCTIO_CTRL, 0x0C)
C6_Witness ==
  /\ Len(calls) > 0
  /\ calls[1].op = "regWrite" /\ calls[1].addr = FNCTIO_CTRL /\ calls[1].data = 12
  /\ Len(CallFrames(calls[1].id)) = 3

\* the word the link holds for an address byte
LinkWord(o) ==
  LET w == DevReg(dev.page, o) IN IF w >= 32768 THEN w - 65536 ELSE w

\* C7: sensorRead returns exactly 9 values and, the link returning in each
\* frame the data of the register addressed by the previous frame, position
\* k holds the word of the k-th register of DIAG_STS, ALM_STS, X_GYRO_OUT,
\* Y_GYRO_OUT, Z_GYRO_OUT, X_ACCL_OUT, Y_ACCL_OUT, Z_ACCL_OUT, TEMP_OUT.
C7_BurstOrder ==
  (Len(calls) > 0 /\ LastCall.op = "sensorRead") =>
    /\ DOMAIN LastCall.words = 0..8
    /\ \A k \in 0..8 : LastCall.words[k] = LinkWord(Offset(BurstOrder[k + 1]))
    /\ sensorwords = LastCall.words

\* a burst has returned nine different values
C7_Witness ==
  /\ Len(calls) > 0
  /\ LastCall.op = "sensorRead"
  /\ Cardinality({LastCall.words[k] : k \in 0..8}) = 9

\* C8: sensorRead issues the page-select frame (0x80, 0x00), ahead of its
\* first address frame, exactly when currentPage was not 0 at its entry,
\* and currentPage is 0 when it returns.
C8_BurstOnPageZero ==
  /\ \A k \in 1..Len(calls) :
       calls[k].op = "sensorRead" =>
         LET fs == CallFrames(calls[k].id)
         IN /\ (Len(PageFrames(fs)) > 0) <=> (calls[k].entryPage # 0)
            /\ Len(PageFrames(fs)) <= 1
            /\ calls[k].entryPage # 0 =>
                 /\ fs[1].role = "page" /\ fs[1].tx = << 128, 0 >>
                 /\ fs[2].role = "prime"
            /\ calls[k].entryPage = 0 => fs[1].role = "prime"
  /\ (Len(calls) > 0 /\ LastCall.op = "sensorRead") => currentPage = 0

\* a burst entered on another page than 0 has returned
C8_Witness ==
  /\ Len(calls) > 0
  /\ LastCall.op = "sensorRead"
  /\ LastCall.entryPage # 0
  /\ currentPage = 0

\* C9 as stated: after the optional page-select frame sensorRead issues the
\* priming frame and exactly 8 further frames, 9 frames for 9 values.
C9_NineFrames ==
  \A k \in 1..Len(calls) :
    calls[k].op = "sensorRead" =>
      Len(InPageFrames(CallFrames(calls[k].id))) = 9

\* C9 amended: after the optional page-select frame sensorRead issues 10
\* frames: the priming frame with the first address, 8 frames that clock
\* out the next register's address while clocking in the previous
\* register's data, and a closing frame (0x00, 0x00) that clocks in the
\* data of the last register.
C9_TenFrames ==
  /\ \A k \in 1..Len(calls) :
       calls[k].op = "sensorRead" =>
         LET fs == InPageFrames(CallFrames(calls[k].id))
         IN /\ Len(fs) = 10
            /\ fs[1].tx = << Offset(BurstOrder[1]), 0 >>
            /\ \A j \in 2..9 : fs[j].tx = << Offset(BurstOrder[j]), 0 >>
            /\ fs[10].tx = << 0, 0 >>
  /\ (Len(calls) > 0 /\ LastCall.op = "sensorRead") =>
       LET fs == InPageFrames(CallFrames(LastCall.id))
       IN \A j \in 2..10 :
            LET w == DevReg(dev.page, Offset(BurstOrder[j - 1]))
            IN fs[j].rx = << w \div 256, w % 256 >>

\* a burst has returned after its ten frames
C9_Witness ==
  /\ Len(calls) > 0
  /\ LastCall.op = "sensorRead"
  /\ Len(InPageFrames(CallFrames(LastCall.id))) = 10
  /\ LastCall.words[8] # 0

IsXfer(e) == e.e = "xfer"

WireXfers == SelectSeq(wire, IsXfer)

\* the positions of a call's bytes among the bytes xs the link carried
XferPositions(xs, id) == {i \in 1..Len(xs) : xs[i].id = id}

\* a set of positions without a gap
Contiguous(S) == \A i \in S, k \in S : k - i < Cardinality(S)

\* the bytes of a call in the order they appeared on the link, by frames
OwnTx(id) ==
  LET xs == SelectSeq(WireXfers, LAMBDA e : IsOf(id, e))
  IN [j \in 1..(Len(xs) \div 2) |-> << xs[2 * j - 1].a, xs[2 * j].a >>]

\* the frames of a call in program order, for a register of the map
OrderedTx(c) ==
  LET sel == IF c.entryPage # TargetPage(c)
             THEN << << 128, TargetPage(c) >> >> ELSE << >>
      off == Offset(c.addr)
  IN sel \o
     CASE c.op = "regRead" -> << << off, 0 >>, << 0, 0 >> >>
       [] c.op = "regWrite" ->
            << << 128 + off, c.data % 256 >>,
               << 128 + off + 1, (c.data \div 256) % 256 >> >>
       [] c.op = "sensorRead" ->
            [j \in 1..10 |-> IF j <= 9 THEN << Offset(BurstOrder[j]), 0 >>
                             ELSE << 0, 0 >>]

InOrderOnLink(c) ==
  /\ LET xs == WireXfers
         own == XferPositions(xs, c.id)
     IN Contiguous(own)
  /\ c.addr \in RegisterMap => OwnTx(c.id) = OrderedTx(c)

\* C10 as stated: the frames of two operations started by interleaved
\* callers never interleave; the frames of every operation appear on the
\* link contiguously and in program order.
C10_NeverInterleaved ==
  \A k \in 1..Len(calls) : InOrderOnLink(calls[k])

IsCs(e) == e.e = "cs"

CsEvents == SelectSeq(wire, IsCs)

TransferOps == {"regRead", "regWrite", "sensorRead"}

IsCsLow(e) == e.e = "cs" /\ e.a = 0

IsCsHigh(e) == e.e = "cs" /\ e.a = 1

\* an event outside a window: a stall, a delay, an edge of the reset line
IsOutside(e) == e.e \notin {"cs", "xfer"}

\* the event at position i is in its place: chip-select falls only from
\* high, rises only after exactly two transfers, a transfer is the first or
\* the second of its window, and everything else happens with chip-select
\* high
ScopedAt(i) ==
  LET e == wire[i]
  IN CASE IsCsLow(e) ->
            i = 1 \/ IsCsHigh(wire[i - 1]) \/ IsOutside(wire[i - 1])
       [] IsCsHigh(e) ->
            /\ i >= 4
            /\ wire[i - 1].e = "xfer" /\ wire[i - 2].e = "xfer"
            /\ IsCsLow(wire[i - 3])
       [] e.e = "xfer" ->
            /\ i >= 2
            /\ \/ IsCsLow(wire[i - 1])
               \/ i >= 3 /\ wire[i - 1].e = "xfer" /\ IsCsLow(wire[i - 2])
       [] OTHER ->
            i = 1 \/ IsCsHigh(wire[i - 1]) \/ IsOutside(wire[i - 1])

\* C11: chip-select is a scoped acquisition.  In every state it is low only
\* while a frame of exactly two byte transfers of regRead, regWrite or
\* sensorRead is in progress; it is high after construction, between any
\* two frames and whenever a call has returned.
C11_ChipSelectScoped ==
  /\ \A i \in 1..Len(wire) : ScopedAt(i)
  /\ cs = IF Len(CsEvents) = 0 THEN 1 ELSE CsEvents[Len(CsEvents)].a
  /\ cs = 0 => (~mainCtx.done /\ mainCtx.op \in TransferOps)
  /\ mainCtx.done => cs = 1
  /\ Len(wire) = 0 => cs = 1

\* in the middle of a burst frame, one byte transferred, after an earlier
\* call has returned
C11_Witness ==
  /\ cs = 0
  /\ mainCtx.op = "sensorRead"
  /\ Len(calls) >= 1
  /\ calls[1].op \in TransferOps
  /\ wire[Len(wire)].e = "xfer"
  /\ wire[Len(wire) - 1].e = "cs"

\* the frames of a call in the order of its statements, for any address
FramesInProgramOrder(c) ==
  LET sel == IF c.entryPage # TargetPage(c)
             THEN << << 128, TargetPage(c) >> >> ELSE << >>
      off == Offset(c.addr)
      wr == 128 + (off % 128)
  IN sel \o
     CASE c.op = "regRead" -> << << off, 0 >>, << 0, 0 >> >>
       [] c.op = "regWrite" ->
            << << wr, c.data % 256 >>,
               << BitOr(wr, 1), (c.data \div 256) % 256 >> >>
       [] c.op = "sensorRead" ->
            [j \in 1..10 |-> IF j <= 9 THEN << Offset(BurstOrder[j]), 0 >>
                             ELSE << 0, 0 >>]

\* C12: within every operation the frames are issued in program order and
\* every frame is followed by a stall of the same operation before the next
\* frame starts or the operation returns; no two frames are back to back.
C12_StallAfterEveryFrame ==
  /\ \A i \in 1..Len(wire) :
       (wire[i].e = "cs" /\ wire[i].a = 1) =>
         /\ i < Len(wire)
         /\ wire[i + 1].e = "stall"
         /\ wire[i + 1].id = wire[i].id
         /\ wire[i + 1].a > 0
  /\ \A k \in 1..Len(calls) :
       TxOf(CallFrames(calls[k].id)) = FramesInProgramOrder(calls[k])

\* a read, a write and a burst have returned, one of them after a page
\* switch
C12_Witness ==
  /\ Len(calls) >= 3
  /\ {calls[k].op : k \in 1..3} = TransferOps
  /\ \E k \in 1..3 : Len(PageFrames(CallFrames(calls[k].id))) = 1

\* C13: regWrite returns 1 for every address, data and bytes returned by
\* the link, and issues no read-back frame: besides the page-select frame
\* it issues the two write frames and nothing else.
C13_WriteReturnsOne ==
  \A k \in 1..Len(calls) :
    calls[k].op = "regWrite" =>
      LET fs == CallFrames(calls[k].id)
      IN /\ calls[k].ret = 1
         /\ Len(InPageFrames(fs)) = 2
         /\ \A j \in 1..Len(fs) :
              /\ fs[j].role \in {"page", "lo", "hi"}
              /\ fs[j].tx[1] >= 128

\* a write during which the link returned a non-zero word, and a write
\* during which it returned zeros only
C13_Witness ==
  /\ \E k \in 1..Len(calls) :
       /\ calls[k].op = "regWrite"
       /\ \E j \in 1..Len(CallFrames(calls[k].id)) :
            CallFrames(calls[k].id)[j].rx \notin {<< 0, 0 >>}
  /\ \E k \in 1..Len(calls) :
       /\ calls[k].op = "regWrite"
       /\ \A j \in 1..Len(CallFrames(calls[k].id)) :
            CallFrames(calls[k].id)[j].rx = << 0, 0 >>

\* the last frame on the wire is a page-select frame of call id for page p
PageSelectJustIssued(id, p) ==
  LET n == Len(wire)
  IN /\ n >= 4
     /\ wire[n].e = "cs" /\ wire[n].a = 1 /\ wire[n].id = id
     /\ wire[n - 1].e = "xfer" /\ wire[n - 1].role = "page" /\ wire[n - 1].a = p
     /\ wire[n - 2].e = "xfer" /\ wire[n - 2].role = "page" /\ wire[n - 2].a = 128
     /\ wire[n - 3].e = "cs" /\ wire[n - 3].a = 0

\* a step that moves currentPage is the assignment that follows the
\* page-select frame of a regRead, regWrite or sensorRead in progress
PageChangeStep ==
  currentPage' # currentPage =>
    /\ ~mainCtx.done
    /\ mainCtx.op \in TransferOps
    /\ mainCtx.prog[mainCtx.pc].i = "setpage"
    /\ PageSelectJustIssued(mainCtx.id, currentPage')

\* a step of any other member function leaves currentPage alone and puts
\* neither a chip-select edge nor a transfer on the wire
OtherOpStep ==
  (~mainCtx.done /\ mainCtx.op \notin TransferOps) =>
    /\ currentPage' = currentPage
    /\ cs' = cs
    /\ \/ wire' = wire
       \/ /\ Len(wire') = Len(wire) + 1
          /\ wire'[Len(wire')].e \in {"rst", "stall", "delay"}

\* C14: currentPage is 0 after construction and changes only inside
\* regRead, regWrite and sensorRead, when a page-select frame has been
\* issued; configSPI, resetDUT and the five scaling functions leave it
\* unchanged and issue no frames.
C14_PageOwnedByTransfers ==
  /\ currentPage = 0 /\ wire = << >>
  /\ [][PageChangeStep /\ OtherOpStep]_vars

\* resetDUT, configSPI and a scaling function can each return with
\* currentPage on a page other than 0: here one of them has
C14_Witness ==
  \E k \in 1..Len(calls) :
    /\ calls[k].op \in {"resetDUT", "configSPI"} \cup ScaleOps
    /\ calls[k].entryPage # 0
    /\ currentPage = calls[k].entryPage
    /\ mainCtx.done

\* microseconds the reset line was low in a stretch of history
RECURSIVE LowTime(_, _, _, _)
LowTime(evs, i, level, acc) ==
  IF i > Len(evs) THEN acc
  ELSE LET e == evs[i]
       IN CASE e.e = "rst" -> LowTime(evs, i + 1, e.a, acc)
            [] e.e = "stall" /\ level = 0 -> LowTime(evs, i + 1, level, acc + e.a)
            [] e.e = "delay" /\ level = 0 ->
                 LowTime(evs, i + 1, level, acc + 1000 * e.a)
            [] OTHER -> LowTime(evs, i + 1, level, acc)

\* C18 as stated: resetDUT(ms) holds the reset line low for ms milliseconds
\* and then releases it; the line is high after construction and whenever
\* resetDUT has returned.
C18_ResetHeldForMs ==
  /\ \A k \in 1..Len(calls) :
       calls[k].op = "resetDUT" =>
         LowTime(CallEvents(calls[k].id), 1, 1, 0) = 1000 * ToUint8(calls[k].data)
  /\ mainCtx.done => rst = 1

\* C20 as stated: whenever no operation is in progress currentPage equals
\* the page the device has selected (the last value written to in-page
\* offset 0 by a write frame, 0 after a hardware reset).
C20_PageCacheInSync ==
  mainCtx.done => currentPage = dev.page

\* the page switch at the head of a call that found another page current:
\* one frame (0x80, p) issued while currentPage still has its old value,
\* then a stall by which currentPage is p; nothing of the kind later on
SwitchedTo(evs, old, p) ==
  /\ Len(evs) >= 6
  /\ evs[1].e = "cs" /\ evs[1].a = 0
  /\ evs[2].e = "xfer" /\ evs[2].a = 128
  /\ evs[3].e = "xfer" /\ evs[3].a = p
  /\ evs[4].e = "cs" /\ evs[4].a = 1
  /\ \A i \in 1..4 : evs[i].cp = old
  /\ evs[5].e = "stall" /\ evs[5].a > 0
  /\ \A i \in 5..Len(evs) : evs[i].cp = p /\ evs[i].role # "page"

\* the head of a call that found its page current: the first event is the
\* falling edge of its first in-page frame, currentPage never moves
NotSwitched(evs, p) ==
  /\ Len(evs) >= 2
  /\ evs[1].e = "cs" /\ evs[1].a = 0
  /\ evs[2].e = "xfer" /\ evs[2].role \in {"addr", "lo", "prime"}
  /\ \A i \in 1..Len(evs) : evs[i].cp = p /\ evs[i].role # "page"

\* C19: when currentPage differs from the target page, regRead, regWrite
\* and sensorRead perform the page switch as exactly one 2-byte frame
\* (0x80, page), then the update of currentPage, then a stall; when
\* currentPage equals the target page there is no frame, no stall and no
\* change of currentPage before the first in-page frame.
C19_PageSwitchExact ==
  \A k \in 1..Len(calls) :
    calls[k].op \in TransferOps =>
      LET evs == CallEvents(calls[k].id)
          p == TargetPage(calls[k])
      IN IF calls[k].entryPage # p
         THEN SwitchedTo(evs, calls[k].entryPage, p)
         ELSE NotSwitched(evs, p)

\* a call that switched to a page other than 0, then a call that found
\* that page current, then a burst that switched back to page 0
C19_Witness ==
  /\ Len(calls) >= 3
  /\ calls[1].entryPage # TargetPage(calls[1])
  /\ calls[2].entryPage = TargetPage(calls[2])
  /\ calls[3].op = "sensorRead"
  /\ calls[3].entryPage # 0

\* the documented coefficients as fractions: value = raw * num / den + off
Documented(op) ==
  CASE op = "gyroScale" -> [num |-> 5, den |-> 1000, off |-> 0]
    [] op = "accelScale" -> [num |-> 5, den |-> 10, off |-> 0]
    [] op = "tempScale" -> [num |-> 1429, den |-> 100000, off |-> 25]
    [] op = "deltaAngleScale" -> [num |-> 22, den |-> 1000, off |-> 0]
    [] op = "deltaVelocityScale" -> [num |-> 6104, den |-> 1000, off |-> 0]

\* C17: for every int16 raw value each scaling function returns the
\* documented linear or affine function of it (gyroScale raw * 0.005,
\* accelScale raw * 0.5, tempScale raw * 0.01429 + 25, deltaAngleScale
\* raw * 0.022, deltaVelocityScale raw * 6.104; 100 gives gyroScale 0.5,
\* -100 gives -0.5, 0 gives tempScale 25), the same value for the same
\* input, and touches nothing of the transport.
C17_ScalingPure ==
  /\ \A k \in 1..Len(calls) :
       calls[k].op \in ScaleOps =>
         LET d == Documented(calls[k].op)
             v == calls[k].scaled
         IN /\ v.den = d.den
            /\ v.num = calls[k].data * d.num + d.off * d.den
            /\ (calls[k].op = "gyroScale" /\ calls[k].data = 100) => 2 * v.num = v.den
            /\ (calls[k].op = "gyroScale" /\ calls[k].data = -100) => 2 * v.num = -v.den
            /\ (calls[k].op = "tempScale" /\ calls[k].data = 0) => v.num = 25 * v.den
  /\ \A k, l \in 1..Len(calls) :
       (calls[k].op = calls[l].op /\ calls[k].data = calls[l].data) =>
         calls[k].scaled = calls[l].scaled
  /\ (\A k \in 1..Len(calls) : calls[k].op \in ScaleOps) =>
       /\ wire = << >>
       /\ currentPage = 0 /\ cs = 1 /\ rst = 1
       /\ sensorwords = [k \in 0..8 |-> 0]

\* gyroScale of a negative sample, then tempScale of 0
C17_Witness ==
  /\ Len(calls) = 2
  /\ calls[1].op = "gyroScale" /\ calls[1].data = -100 /\ calls[1].scaled.num < 0
  /\ calls[2].op = "tempScale" /\ calls[2].data = 0 /\ calls[2].scaled.num > 0

\* C15: in both example sketches no frame-issuing operation (regRead,
\* regWrite, sensorRead) is started or in progress in main context while
\* the trigger callback is attached, so the callback never runs in the
\* middle of one.
C15_MainExcludedWhileAttached ==
  /\ app.attached => (mainCtx.done \/ mainCtx.op \notin TransferOps)
  /\ mainCtx.op \in TransferOps => ~mainCtx.preempted
  /\ \A k \in 1..Len(calls) :
       (calls[k].by = "main" /\ calls[k].op \in TransferOps) => ~calls[k].preempted

\* the printing sketch has printed once and attached the callback again,
\* and the callback has run
C15_Witness ==
  /\ app.ex = "printing"
  /\ app.attached
  /\ app.prints = 1
  /\ irqs = 1
  /\ \E k \in 1..Len(calls) : calls[k].by = "isr" /\ calls[k].op = "regRead"

IsMainWrite(c) == c.by = "main" /\ c.op = "regWrite"

\* positions in the history
EventsOf(id) == {i \in 1..Len(wire) : wire[i].id = id}

LastEventOf(id) == CHOOSE i \in EventsOf(id) : \A j \in EventsOf(id) : j <= i

AttachEvents == {i \in 1..Len(wire) : wire[i].e = "attach" /\ wire[i].a = 1}

\* the event that follows the last event of call id is delay(20)
SettledAfter(id) ==
  LET i == LastEventOf(id)
  IN i < Len(wire) /\ wire[i + 1].e = "delay" /\ wire[i + 1].a = 20

\* C16: in each sketch setup writes FNCTIO_CTRL, then DEC_RATE, each write
\* followed by a settle delay, and installs the trigger callback only after
\* both writes and the setup reads have returned: the callback is never
\* attached, and never runs, before the second write has finished.
C16_SetupBeforeCallback ==
  (app.attached \/ irqs > 0 \/ app.phase = "loop") =>
    LET mw == SelectSeq(calls, IsMainWrite)
    IN /\ Len(mw) = 2
       /\ mw[1].addr = FNCTIO_CTRL /\ mw[1].data = 12
       /\ mw[2].addr = DEC_RATE
       /\ mw[2].data = IF app.ex = "printing" THEN 0 ELSE 23
       /\ mw[1].id < mw[2].id
       /\ SettledAfter(mw[1].id) /\ SettledAfter(mw[2].id)
       /\ app.ex = "printing" =>
            \E k, l \in 1..Len(calls) :
              /\ k < l
              /\ mw[2].id < calls[k].id
              /\ calls[k].by = "main" /\ calls[k].op = "regRead"
              /\ calls[k].addr = FNCTIO_CTRL
              /\ calls[l].by = "main" /\ calls[l].op = "regRead"
              /\ calls[l].addr = DEC_RATE
       /\ \A k, l \in 1..Len(calls) :
            (calls[k].by = "isr" /\ calls[l].by = "main"
               /\ calls[l].op \in TransferOps) => l < k
       /\ \A i \in AttachEvents, k \in 1..Len(calls) :
            (calls[k].by = "main" /\ calls[k].op \in TransferOps) =>
              LastEventOf(calls[k].id) < i

\* the burst sketch has finished setup and the callback has run its burst
C16_Witness ==
  /\ app.ex = "burst"
  /\ app.phase = "loop"
  /\ irqs = 1
  /\ LastCall.by = "isr" /\ LastCall.op = "sensorRead"
  /\ app.sensorPtr

\* C21 as stated: for every 16-bit address, the only frame of regRead whose
\* first byte has the write bit (0x80) set is the page-select frame
\* (0x80, page); the address frame and the data frame never have it set.
C21_ReadNeverWrites ==
  \A k \in 1..Len(calls) :
    calls[k].op = "regRead" =>
      LET fs == CallFrames(calls[k].id)
      IN \A j \in 1..Len(fs) :
           fs[j].tx[1] >= 128 =>
             /\ fs[j].role = "page"
             /\ fs[j].tx = << 128, PageByte(calls[k].addr) >>

\* the addresses the trigger callbacks put on the link: the address bytes
\* of a burst's frames, the addresses of the single reads
CallbackAddresses ==
  UNION { IF calls[k].op = "sensorRead"
          THEN LET fs == InPageFrames(CallFrames(calls[k].id))
               IN {fs[j].tx[1] : j \in 1..(Len(fs) - 1)}
          ELSE {calls[k].addr} :
          k \in {n \in 1..Len(calls) : calls[n].by = "isr"} }

\* C22 as stated: every address sensorRead clocks out and every address
\* the printing sketch's callback reads is a constant of the register map
\* with page byte 0 and in-page offset below 0x80.
C22_BurstAddressesDefined ==
  \A a \in CallbackAddresses :
    /\ a \in RegisterMap
    /\ PageByte(a) = 0
    /\ Offset(a) < 128

\* C27: for every pair of bytes (h, l) returned by the data frame, in that
\* order, regRead returns h*256 + l taken as a signed 16-bit value (less
\* 65536 when h >= 0x80); each word of sensorRead is assembled from the two
\* bytes of its frame in the same way.
C27_WordAssembly ==
  \A k \in 1..Len(calls) :
    LET fs == InPageFrames(CallFrames(calls[k].id))
    IN /\ calls[k].op = "regRead" =>
            calls[k].ret = Word16(fs[2].rx[1], fs[2].rx[2])
       /\ calls[k].op = "sensorRead" =>
            \A j \in 0..8 :
              calls[k].words[j] = Word16(fs[j + 2].rx[1], fs[j + 2].rx[2])

\* over the link with the device, a single read and a burst have returned
\* words whose high byte has its top bit set, as negative values
C27_Witness ==
  /\ dev.mode = "ok"
  /\ \E k \in 1..Len(calls) :
       /\ calls[k].op = "regRead"
       /\ InPageFrames(CallFrames(calls[k].id))[2].rx[1] >= 128
       /\ calls[k].ret < 0
  /\ \E k \in 1..Len(calls) :
       /\ calls[k].op = "sensorRead"
       /\ InPageFrames(CallFrames(calls[k].id))[2].rx[1] >= 128
       /\ calls[k].words[0] < 0

\* the transport after a burst started in the current state
BurstOutcome ==
  Run(Transport,
      NewCall(nextId + 1, "main", "sensorRead", 0, 0, sensorRead, currentPage))

\* the transport and the nine values after the nine single reads of the
\* printing sketch's callback started in the current state
SinglesOutcome == GrabRun(GrabData("printing"), 1, Transport, NoApp, << >>)

\* frames a run has added to the history
FramesAdded(w) == Cardinality({i \in (Len(wire) + 1)..Len(w) : IsCsLow(w[i])})

\* C23: from any state in which currentPage matches the device,
\* sensorRead returns the same nine values as regRead(DIAG_STS),
\* regRead(ALM_STS), regRead(X_GYRO_OUT), ..., regRead(TEMP_OUT) made in
\* order, leaves the same currentPage (0), and uses fewer frames.
C23_BurstEqualsSingles ==
  (mainCtx.done /\ currentPage = dev.page) =>
    LET b == BurstOutcome
        s == SinglesOutcome
    IN /\ \A k \in 0..8 : b.c.words[k] = s.app.sensorData[k]
       /\ b.g.currentPage = 0 /\ s.g.currentPage = 0
       /\ FramesAdded(b.g.wire) < FramesAdded(s.g.wire)

\* the transport and the device are on page 3: the burst and the nine
\* single reads both start with a page select, return the same nine
\* values, not all equal, and take 11 frames against 19
C23_Witness ==
  /\ mainCtx.done
  /\ currentPage = 3 /\ dev.page = 3
  /\ LET b == BurstOutcome
         s == SinglesOutcome
     IN /\ FramesAdded(b.g.wire) = 11
        /\ FramesAdded(s.g.wire) = 19
        /\ Cardinality({b.c.words[k] : k \in 0..8}) = 9
        /\ \A k \in 0..8 : b.c.words[k] = s.app.sensorData[k]

\* what the controller did in a history, without the bytes it received
Sent(w) ==
  [i \in 1..Len(w) |->
     [e |-> w[i].e, a |-> w[i].a, role |-> w[i].role, id |-> w[i].id, cp |-> w[i].cp]]

\* C24: the behaviour on the link does not depend on what the link
\* returns.  A run that applies the same calls with the same arguments
\* over a link returning other bytes sends the same frames, with the same
\* chip-select transitions and stalls, ends with the same currentPage, and
\* no operation reports an error (every regWrite returns 1 in both).
C24_LinkIndependent ==
  \A m \in LinkModes :
    LET r == Replay(calls, 1, NewTransport(m))
    IN /\ Sent(r.g.wire) = Sent(wire)
       /\ r.g.currentPage = currentPage
       /\ r.g.cs = cs
       /\ \A k \in 1..Len(calls) :
            calls[k].op = "regWrite" => (calls[k].ret = 1 /\ r.rets[k] = 1)

\* two calls, a read among them, over a link without a device: the other
\* run, with the device, received other bytes and its read returned another
\* value
C24_Witness ==
  /\ dev.mode = "absent"
  /\ Len(calls) = 2
  /\ calls[1].op = "regRead" /\ calls[1].ret = -1
  /\ calls[1].entryPage # TargetPage(calls[1])
  /\ LET r == Replay(calls, 1, NewTransport("ok"))
     IN r.g.wire # wire /\ r.rets[1] # calls[1].ret

\* the returned sensorRead calls, oldest first
BurstCalls == {k \in 1..Len(calls) : calls[k].op = "sensorRead"}

\* the nine values read now through the pointer that call c returned: the
\* static array when the pointer is its address, else the array of the
\* call, which holds what the call stored
ReadThrough(c) == IF c.ptr = SensorwordsPtr THEN sensorwords ELSE c.words

\* C26: sensorRead returns a reference to one buffer shared by all calls
\* and all objects: every sensorRead, on either object, returns the same
\* pointer, and the values read through the result of any sensorRead, an
\* earlier one included, are those the latest completed sensorRead (of
\* either object) assembled, whatever other calls came in between.
C26_SharedBuffer ==
  BurstCalls # {} =>
    LET last == CHOOSE k \in BurstCalls : \A n \in BurstCalls : n <= k
    IN \A k \in BurstCalls :
         /\ calls[k].ptr = calls[last].ptr
         /\ ReadThrough(calls[k]) = calls[last].words

\* a burst on one object, then a burst on the other object that assembled
\* different values: what the first one returned now reads as the values
\* of the second
C26_Witness ==
  \E k, n \in BurstCalls :
    /\ k < n
    /\ calls[k].obj = 1 /\ calls[n].obj = 2
    /\ calls[k].words # calls[n].words
    /\ ReadThrough(calls[k]) = calls[n].words
    /\ ReadThrough(calls[k]) # calls[k].words

\* main context of the printing sketch is inside a scale-and-print cycle:
\* at a statement of scaleData(), at the prints or at the attachInterrupt
\* that ends the cycle
InCycle ==
  /\ app.ex = "printing" /\ app.phase = "loop"
  /\ \E i \in 1..app.pc : LoopOf(app.ex)[i].s = "call"

\* the statements of scaleData() the current cycle has completed
ScaledSoFar == {i \in 1..(app.pc - 1) : LoopOf(app.ex)[i].s = "call"}

\* the calls the callback has made, oldest first
CallbackCalls == SelectSeq(calls, LAMBDA c : c.by = "isr")

\* sensorData is as initialised, or holds the nine results of the last
\* invocation of the callback, all of them
OneSample ==
  IF irqs = 0 THEN \A k \in 0..8 : app.sensorData[k] = 0
  ELSE LET cc == CallbackCalls
           n == Len(cc)
       IN /\ n = 9 * irqs
          /\ \A k \in 0..8 :
               /\ cc[n - 8 + k].addr = BurstOrder[k + 1]
               /\ app.sensorData[k] = cc[n - 8 + k].ret

\* inside a cycle the callback is detached, sensorData is one sample, and
\* every value scaled so far was scaled from that sample
CycleState ==
  InCycle =>
    /\ ~app.attached
    /\ OneSample
    /\ \A i \in ScaledSoFar :
         LET st == LoopOf(app.ex)[i]
         IN app.scaledData[st.dst.k] = Scaled(st.op, app.sensorData[st.src])

\* a step taken inside a cycle is not the callback and leaves sensorData
CycleStep == InCycle => (irqs' = irqs /\ app'.sensorData = app.sensorData)

Detached == app.ex = "printing" /\ app.phase = "loop" /\ ~app.attached

\* C25: in the printing sketch the callback is detached for the whole of
\* each scale-and-print cycle and attached again at its end: the callback
\* never runs between detachInterrupt and attachInterrupt, the nine
\* sensorData values one cycle uses come from one completed invocation of
\* the callback (or are all initial), and every detach is eventually
\* followed by an attach.
C25_DetachedCycle ==
  /\ []CycleState
  /\ [][CycleStep]_vars
  /\ (Detached ~> app.attached)

\* the callback ran before the cycle started, the cycle has scaled all
\* seven values from its sample and is at the prints, the callback detached
C25_Witness ==
  /\ InCycle
  /\ AppStmt.s = "clear"
  /\ ~app.attached
  /\ irqs = 1
  /\ app.sensorData[2] # 0
  /\ app.scaledData[0] = Scaled("gyroScale", app.sensorData[2])
  /\ app.scaledData[6] = Scaled("tempScale", app.sensorData[8])

=============================================================================
